---- MODULE Spec2Model ----
(***************************************************************************)
(* Multi-model embedding and similarity-search subsystem of                *)
(* ReSys.Shop.ImageSearch: the model manager (app/model_factory.py), the   *)
(* API-level embedder cache and batch embedding generation (app/main.py)   *)
(* and the search service (app/services/search_service.py).                *)
(***************************************************************************)
EXTENDS Integers, Sequences, FiniteSets, TLC

VARIABLES
    _embedders,   \* ModelManager._embedders: model name -> embedder instance
    embedders,    \* main.py global cache: name -> embedder instance or None
    thr,          \* the callers of the model manager, one record per thread
    nextId,       \* identity of the next embedder object constructed
    loadFailed,   \* the names whose constructor has raised so far
    last,         \* the call of the model manager that has just returned
    store,        \* eshopdb.product_images: image id -> committed row
    bf,           \* the request of generate_embeddings_batch being served
    sr,           \* the search call that has just returned
    products,     \* eshopdb.products: product id -> row
    ev,           \* the evaluation run of the validation suite
    calc          \* the computation being carried out, its inputs and results

vars == <<_embedders, embedders, thr, nextId, loadFailed, last, store, bf, sr,
          products, ev, calc>>

evalVars == <<products, ev, calc>>

registryVars == <<_embedders, embedders, thr, nextId, loadFailed, last>>

(***************************************************************************)
(* Bounds of the model.                                                    *)
(***************************************************************************)
NThreads == 2
MaxInst == 2
MaxWarm == 2
MaxBatch == 2
MaxLimit == 2
MaxHits == 11
MaxRelevant == 3
MaxCategoryQueries == 6

Threads == 1..NThreads

(***************************************************************************)
(* Python values.                                                          *)
(***************************************************************************)
\* None, as an object comparable with embedder instances.
NoneObj == [id |-> 0, name |-> "None"]

\* An embedder instance: BaseEmbedder.__init__ sets self.name; id is the
\* identity of the Python object.
Embedder(i, n) == [id |-> i, name |-> n]

\* dict[key] = value
DictSet(d, k, v) == [x \in (DOMAIN d) \cup {k} |-> IF x = k THEN v ELSE d[x]]

EmptyDict == [x \in {} |-> NoneObj]

(***************************************************************************)
(* app/model_factory.py: ModelManager                                      *)
(***************************************************************************)
\* The keys of ModelManager._model_mapping.
_model_mapping ==
    {"resnet50", "mobilenet_v3", "efficientnet_b0", "convnext_tiny",
     "clip_vit_b16", "fashion_clip", "dino_vit_s16"}

\* settings.AVAILABLE_MODELS, config.py lines 17-28, in the order of the list.
AVAILABLE_MODELS ==
    <<"efficientnet_b0", "convnext_tiny", "clip_vit_b16", "fashion_clip",
      "dinov2_vits14">>

\* settings.DEFAULT_MODEL
DEFAULT_MODEL == "efficientnet_b0"

\* The names the callers pass: two names of the mapping and the API's
\* "clip", which the mapping does not define.
CallNames == {"efficientnet_b0", "mobilenet_v3", "clip"}

\* Mutant of CacheHit: the lookup of line 310 never finds the name.
CacheHitNever(mm, n) == FALSE

\* get_embedder, line 310: the name is cached.
CacheHit(mm, n) == n \in DOMAIN mm

\* Mutant of IsUnknown: the check of line 313 is missing.
IsUnknownNever(n) == FALSE

\* get_embedder, line 313: the name is not in _model_mapping.
IsUnknown(n) == n \notin _model_mapping

\* A thread that is in no call.
IdleThread ==
    [op |-> "none", pc |-> "idle", name |-> "None", todo |-> <<>>,
     asked |-> <<>>, failed |-> {}, newid |-> 0,
     after |-> FALSE, raised |-> FALSE]

\* The record of the call that returned in the step that led to the
\* current state (NoCall when that step returned from no call).
NoCall ==
    [op |-> "none", name |-> "None", asked |-> <<>>, out |-> NoneObj,
     hit |-> FALSE, tried |-> FALSE, ok |-> FALSE, failed |-> {},
     after |-> FALSE, raised |-> FALSE, loaded |-> {}]

\* The threads that are inside the constructor called on line 318 for name n.
InConstructor(n) == {t \in Threads : thr[t].pc = "constructing" /\ thr[t].name = n}

\* Mutant of WarmupContinue: a name that did not load ends the warmup with
\* an exception.
WarmupAbort(r, res) ==
    IF res = NoneObj
    THEN [r EXCEPT !.pc = "idle", !.todo = <<>>, !.raised = TRUE]
    ELSE [r EXCEPT !.pc = IF r.todo = <<>> THEN "idle" ELSE "warm"]

\* ModelManager.warmup, lines 334-335: the for loop drops the value
\* get_embedder returned and goes on with the next name.
WarmupContinue(r, res) ==
    [r EXCEPT !.pc = IF r.todo = <<>> THEN "idle" ELSE "warm"]

\* The thread after get_embedder returned res to its caller:
\*   get_embedder (line 341) and get_cached_embedder (line 60) return it,
\*   warmup goes on.
Returned(r, res) ==
    IF r.op = "warmup" THEN WarmupContinue(r, res) ELSE [r EXCEPT !.pc = "idle"]

\* The record of the call of thread record r, which get_embedder just
\* answered with res.
CallRecord(r, res, hit, tried, ok) ==
    IF r.op = "warmup"
    THEN [NoCall EXCEPT !.op = "warmup", !.asked = r.asked, !.failed = r.failed,
                        !.raised = r.raised]
    ELSE [NoCall EXCEPT !.op = r.op, !.name = r.name, !.asked = r.asked,
                        !.out = res, !.hit = hit, !.tried = tried, !.ok = ok,
                        !.after = r.after]

\* get_embedder returns res to thread t, whose record is r.
Return(t, r, res, hit, tried, ok) ==
    LET r2 == Returned(r, res)
    IN  /\ thr' = [thr EXCEPT ![t] = IF r2.pc = "idle" THEN IdleThread ELSE r2]
        /\ last' = IF r2.pc = "idle" THEN CallRecord(r2, res, hit, tried, ok) ELSE NoCall

\* main.py line 59: the API stores whatever get_embedder returned.
CacheStored(c, r, res) ==
    IF r.op = "get_cached_embedder" THEN DictSet(c, r.name, res) ELSE c

\* ModelManager.get_embedder up to the call of the constructor (lines
\* 310-318) by thread t for name n; r is the thread's record.
EnterGetEmbedder(t, r0, n) ==
    LET r == [r0 EXCEPT !.name = n, !.after = n \in loadFailed]
    IN  IF CacheHit(_embedders, n)
        THEN /\ Return(t, r, _embedders[n], TRUE, FALSE, FALSE)
             /\ embedders' = CacheStored(embedders, r, _embedders[n])
             /\ UNCHANGED <<_embedders, nextId, loadFailed>>
        ELSE IF IsUnknown(n)
        THEN /\ Return(t, r, NoneObj, FALSE, FALSE, FALSE)
             /\ embedders' = CacheStored(embedders, r, NoneObj)
             /\ UNCHANGED <<_embedders, nextId, loadFailed>>
        ELSE /\ calc.fn # "test_models" => nextId <= MaxInst
             /\ thr' = [thr EXCEPT ![t] =
                          [r EXCEPT !.pc = "constructing", !.newid = nextId]]
             /\ nextId' = nextId + 1
             /\ last' = NoCall
             /\ UNCHANGED <<_embedders, embedders, loadFailed>>

\* model_manager.get_embedder(n), called directly (scripts, evaluation,
\* dataset import).
GetEmbedderCall(t, n) ==
    /\ thr[t].pc = "idle"
    /\ UNCHANGED <<store, bf, sr, evalVars>>
    /\ EnterGetEmbedder(t, [IdleThread EXCEPT !.op = "get_embedder"], n)

\* The constructor called on line 318 returns (ok) or raises; lines 319-323.
ConstructEnd(t, ok) ==
    /\ thr[t].pc = "constructing"
    /\ UNCHANGED <<store, bf, sr, evalVars>>
    /\ LET r == thr[t]
           e == Embedder(r.newid, r.name)
       IN  IF ok
           THEN /\ _embedders' = DictSet(_embedders, r.name, e)
                /\ Return(t, r, e, FALSE, TRUE, TRUE)
                /\ embedders' = CacheStored(embedders, r, e)
                /\ UNCHANGED loadFailed
           ELSE /\ UNCHANGED _embedders
                /\ Return(t, [r EXCEPT !.failed = @ \cup {r.name}], NoneObj,
                          FALSE, TRUE, FALSE)
                /\ embedders' = CacheStored(embedders, r, NoneObj)
                /\ loadFailed' = loadFailed \cup {r.name}
    /\ UNCHANGED nextId

\* main.py get_cached_embedder(n), lines 55-60.  The API's handlers are
\* coroutines of one event loop and get_cached_embedder never awaits, so one
\* call of it runs at a time; the threads that call the model manager
\* directly run beside it.
ApiBusy == \E u \in Threads : thr[u].op = "get_cached_embedder" /\ thr[u].pc # "idle"

get_cached_embedder(t, n) ==
    /\ thr[t].pc = "idle"
    /\ UNCHANGED <<store, bf, sr, evalVars>>
    /\ ~ApiBusy
    /\ LET r == [IdleThread EXCEPT !.op = "get_cached_embedder"]
       IN  IF n \notin DOMAIN embedders
           THEN EnterGetEmbedder(t, r, n)
           ELSE /\ Return(t, [r EXCEPT !.name = n, !.after = n \in loadFailed],
                          embedders[n], TRUE, FALSE, FALSE)
                /\ UNCHANGED <<_embedders, embedders, nextId, loadFailed>>

\* The lists of names warmup is called with; NoNames stands for
\* model_names=None.
NoNames == <<"None">>

RECURSIVE SeqsUpTo(_, _)
SeqsUpTo(S, k) ==
    IF k = 0 THEN {<<>>}
    ELSE LET shorter == SeqsUpTo(S, k - 1)
         IN  shorter \cup {Append(s, x) : s \in {q \in shorter : Len(q) = k - 1}, x \in S}

WarmupLists == SeqsUpTo(CallNames, MaxWarm) \cup {NoNames}

\* ModelManager.warmup, lines 331-332: the list walked by the for loop.
WarmupNames(model_names) ==
    IF model_names = NoNames THEN <<DEFAULT_MODEL>> ELSE model_names

\* One iteration of the loop of warmup: self.get_embedder(name).
WarmupIterate(t, r) ==
    EnterGetEmbedder(t, [r EXCEPT !.todo = Tail(r.todo)], Head(r.todo))

\* model_manager.warmup(model_names): the call and its first iteration.
\* Warmup is called once, on the start of a script, so one call of it runs
\* at a time; the other threads call get_embedder beside it.
warmup(t, model_names) ==
    /\ thr[t].pc = "idle"
    /\ UNCHANGED <<store, bf, sr, evalVars>>
    /\ \A u \in Threads : thr[u].op # "warmup"
    /\ LET r == [IdleThread EXCEPT !.op = "warmup",
                                   !.asked = WarmupNames(model_names),
                                   !.todo = WarmupNames(model_names)]
       IN  IF r.todo = <<>>
           THEN /\ last' = CallRecord(r, NoneObj, FALSE, FALSE, FALSE)
                /\ UNCHANGED <<_embedders, embedders, thr, nextId, loadFailed>>
           ELSE WarmupIterate(t, r)

\* The next iteration of the loop of warmup.
WarmupStep(t) ==
    /\ thr[t].pc = "warm"
    /\ UNCHANGED <<store, bf, sr, evalVars>>
    /\ WarmupIterate(t, thr[t])

\* ModelManager.get_loaded_models, lines 325-327: returns the dict itself;
\* its caller (SearchService.get_model_info) only reads it.
get_loaded_models(t) ==
    /\ thr[t].pc = "idle"
    /\ last' = [NoCall EXCEPT !.op = "get_loaded_models", !.loaded = DOMAIN _embedders]
    /\ UNCHANGED <<_embedders, embedders, thr, nextId, loadFailed, store, bf, sr, evalVars>>

(***************************************************************************)
(* app/database.py: ProductImage, and the rows of eshopdb.product_images.  *)
(***************************************************************************)
\* Mutant of ProductImageColumns: the ORM class also declares the column
\* the batch generation reads first.
ProductImageColumnsWithMobilenet ==
    {"embedding_mobilenet", "embedding_efficientnet", "embedding_convnext",
     "embedding_clip", "embedding_fclip", "embedding_dino"}

\* The embedding attributes the ORM class ProductImage declares.
ProductImageColumns ==
    {"embedding_efficientnet", "embedding_convnext", "embedding_clip",
     "embedding_fclip", "embedding_dino"}

\* The dimension of the pgvector column behind each embedding attribute.
ColumnDim(col) ==
    CASE col = "embedding_efficientnet" -> 1280
      [] col = "embedding_convnext" -> 768
      [] col = "embedding_clip" -> 512
      [] col = "embedding_fclip" -> 512
      [] col = "embedding_dino" -> 384
      [] OTHER -> 0

\* self.dim of the embedder classes (the second argument of super().__init__).
EmbedderDim(n) ==
    CASE n = "resnet50" -> 2048
      [] n = "mobilenet_v3" -> 576
      [] n = "efficientnet_b0" -> 1280
      [] n = "convnext_tiny" -> 768
      [] n = "clip_vit_b16" -> 512
      [] n = "fashion_clip" -> 512
      [] n = "dino_vit_s16" -> 384
      [] OTHER -> 0

\* A vector is a unit vector of len coordinates that lies in the plane of the
\* first two, at ang quarter turns from the first axis; NullVec is SQL NULL
\* and Python None.
NullVec == [null |-> TRUE, len |-> 0, ang |-> 0]

Vec(l, a) == [null |-> FALSE, len |-> l, ang |-> a]

\* The four columns of one model: embedding_p, embedding_p_model,
\* embedding_p_generated_at, embedding_p_checksum.
NullCell == [vec |-> NullVec, model |-> "NULL", generated_at |-> "NULL", checksum |-> "NULL"]

\* Mutant of ImportedCell: the import stores no checksum.
ImportedCellNoChecksum(col, model, a) ==
    [vec |-> Vec(ColumnDim(col), a), model |-> model, generated_at |-> "imported",
     checksum |-> "NULL"]

\* The cell the dataset import writes (dataset_loader.py, get_metadata).
ImportedCell(col, model, a) ==
    [vec |-> Vec(ColumnDim(col), a), model |-> model, generated_at |-> "imported",
     checksum |-> "sha256"]

\* The ids of the rows of product_images, and an id no row has.
ImageIds == {"img1", "img2", "img3"}

GhostId == "ghost"

(***************************************************************************)
(* app/model_factory.py and app/main.py, run by one caller at a time.     *)
(***************************************************************************)
\* ModelManager.get_embedder run to its return by one caller; ok is whether
\* the constructor, if called, returns.  c is [cache, mm, nid]: the API's
\* embedders, ModelManager._embedders and the next object identity.
GetEmbedderSeq(c, n, ok) ==
    IF CacheHit(c.mm, n) THEN [c |-> c, res |-> c.mm[n]]
    ELSE IF IsUnknown(n) THEN [c |-> c, res |-> NoneObj]
    ELSE IF ok
         THEN [c |-> [c EXCEPT !.mm = DictSet(c.mm, n, Embedder(c.nid, n)),
                               !.nid = c.nid + 1],
               res |-> Embedder(c.nid, n)]
         ELSE [c |-> [c EXCEPT !.nid = c.nid + 1], res |-> NoneObj]

\* main.py get_cached_embedder, lines 55-60, run to its return.
GetCachedSeq(c, n, ok) ==
    IF n \in DOMAIN c.cache
    THEN [c |-> c, res |-> c.cache[n]]
    ELSE LET g == GetEmbedderSeq(c, n, ok)
         IN  [c |-> [g.c EXCEPT !.cache = DictSet(g.c.cache, n, g.res)], res |-> g.res]

\* BaseEmbedder.extract_features(image.url), lines 65-75: None when the file
\* behind the url does not load as an image, else the normalized features,
\* of the embedder's dimension.
ExtractFeatures(e, image) ==
    IF image.decodable THEN Vec(EmbedderDim(e.name), image.ang) ELSE NullVec

(***************************************************************************)
(* app/main.py: generate_embeddings_batch                                  *)
(***************************************************************************)
\* Mutant of models_to_check: without the entry of the column that the ORM
\* class does not declare.
models_to_check_declared ==
    << <<"efficientnet_b0", "embedding_efficientnet">>, <<"clip", "embedding_clip">> >>

\* models_to_check, lines 178-182, in the order of the dict.
models_to_check ==
    << <<"mobilenet_v3", "embedding_mobilenet">>,
       <<"efficientnet_b0", "embedding_efficientnet">>,
       <<"clip", "embedding_clip">> >>

BackfillModels == {models_to_check[k][1] : k \in 1..Len(models_to_check)}

\* Mutant of ReadColumn: the test of line 197 is missing, every column is
\* taken to be empty.
ReadColumnAlwaysNone(image, col) == "None"

\* Mutant of ReadColumn: an attribute the ORM class does not declare reads
\* as None, as getattr(image, emb_col, None) would.
ReadColumnDefaultNone(image, col) ==
    IF col \notin ProductImageColumns THEN "None"
    ELSE IF image.cols[col].vec.null THEN "None"
    ELSE "set"

\* Line 197, getattr(image, emb_col) is None: AttributeError when the ORM
\* class has no such attribute.
ReadColumn(image, col) ==
    IF col \notin ProductImageColumns THEN "AttributeError"
    ELSE IF image.cols[col].vec.null THEN "None"
    ELSE "set"

\* Lines 203-205, the three setattr calls.  setattr on a name that is no
\* attribute of the ORM class sets a plain Python attribute, which no row
\* ever sees.
WriteColumn(image, col, embedding, model) ==
    IF col \notin ProductImageColumns THEN image
    ELSE [image EXCEPT !.cols[col] =
            [@ EXCEPT !.vec = embedding, !.model = model, !.generated_at = "now"]]

\* The state of the body of the for loop of line 184 for one image.
StartImage(image, c) ==
    [img |-> image, c |-> c, updated |-> <<>>, raised |-> FALSE,
     extracted |-> {}, written |-> {}]

\* One iteration of the loop of line 196, for entry <<model_name, emb_col>>.
CheckModel(ps, entry, ok) ==
    LET model_name == entry[1]
        emb_col == entry[2]
        rd == ReadColumn(ps.img, emb_col)
    IN  IF rd = "AttributeError" THEN [ps EXCEPT !.raised = TRUE]
        ELSE IF rd = "set" THEN ps
        ELSE LET g == GetCachedSeq(ps.c, model_name, ok)
             IN  IF g.res = NoneObj
                 THEN \* line 200: None has no extract_features
                      [ps EXCEPT !.c = g.c, !.raised = TRUE]
                 ELSE [ps EXCEPT
                         !.c = g.c,
                         !.img = WriteColumn(ps.img, emb_col,
                                             ExtractFeatures(g.res, ps.img), g.res.name),
                         !.extracted = @ \cup {emb_col},
                         !.written = @ \cup ({emb_col} \cap ProductImageColumns),
                         !.updated = Append(@, model_name)]

\* The loop of line 196; an exception leaves it.
RECURSIVE CheckModels(_, _, _)
CheckModels(ps, k, oks) ==
    IF k > Len(models_to_check) \/ ps.raised THEN ps
    ELSE CheckModels(CheckModel(ps, models_to_check[k], oks[models_to_check[k][1]]),
                     k + 1, oks)

\* An entry of report_details.
ProcessReportItem(id, status, updated, error) ==
    [image_id |-> id, status |-> status, updated_embeddings |-> updated, error |-> error]

NoRequest ==
    [pc |-> "idle", ids |-> <<>>, i |-> 0, success_count |-> 0, fail_count |-> 0,
     report_details |-> <<>>, session |-> [x \in {} |-> 0], resp |-> "none",
     before |-> [x \in {} |-> 0], extracted |-> {}, written |-> {}, rerun |-> FALSE,
     commits |-> 0, earlier |-> {}, shared |-> {}]

\* The request lists: image ids, known or not, up to MaxBatch of them.
BatchLists == SeqsUpTo(ImageIds \cup {GhostId}, MaxBatch)

\* POST /embeddings/generate arrives: lines 174-182.  A request is served
\* when the one before it has returned.
BackfillCall(ids) ==
    /\ bf.pc \in {"idle", "returned"}
    /\ bf' = [NoRequest EXCEPT
                !.pc = IF ids = <<>> THEN "commit" ELSE "loop",
                !.ids = ids, !.i = 1, !.before = store,
                !.rerun = (bf.pc = "returned" /\ bf.resp = "ok" /\ bf.ids = ids),
                !.earlier = IF bf.resp = "ok" THEN bf.earlier \cup bf.written
                            ELSE bf.earlier,
                !.shared = {ids[k] : k \in 1..Len(ids)} \cap
                           {bf.ids[k] : k \in 1..Len(bf.ids)}]
    /\ UNCHANGED <<registryVars, store, sr, evalVars>>

\* Mutant of QueryImage: the filter on the id is missing, the query answers
\* with some row of the table.
QueryImageUnfiltered(id) == {store[x] : x \in {CHOOSE y \in DOMAIN store : TRUE}}

\* db.query(ProductImage).filter(ProductImage.id == image_id).first(): the
\* object the session already holds, else the committed row, else nothing.
QueryImage(id) ==
    IF id \in DOMAIN bf.session THEN {bf.session[id]}
    ELSE IF id \in DOMAIN store THEN {store[id]}
    ELSE {}

\* One iteration of the loop of line 184, lines 185-218; oks says which
\* constructors, if called, return.
BackfillImage(oks) ==
    /\ bf.pc = "loop"
    /\ LET id == bf.ids[bf.i]
           found == QueryImage(id)
           pc2 == IF bf.i = Len(bf.ids) THEN "commit" ELSE "loop"
       IN  IF found = {}
           THEN /\ bf' = [bf EXCEPT
                            !.pc = pc2, !.i = @ + 1, !.fail_count = @ + 1,
                            !.report_details = Append(@,
                               ProcessReportItem(id, "failed", <<>>, "Image not found"))]
                /\ UNCHANGED <<_embedders, embedders, nextId>>
           ELSE LET image == CHOOSE x \in found : TRUE
                    ps == CheckModels(
                            StartImage(image, [cache |-> embedders, mm |-> _embedders,
                                               nid |-> nextId]), 1, oks)
                IN  /\ bf' = [bf EXCEPT
                                !.pc = pc2, !.i = @ + 1,
                                !.session = DictSet(@, id, ps.img),
                                !.success_count = IF ps.raised THEN @ ELSE @ + 1,
                                !.fail_count = IF ps.raised THEN @ + 1 ELSE @,
                                !.extracted = @ \cup {<<id, col>> : col \in ps.extracted},
                                !.written = @ \cup {<<id, col>> : col \in ps.written},
                                !.report_details = Append(@,
                                   ProcessReportItem(id,
                                      IF ps.raised THEN "failed" ELSE "success",
                                      ps.updated,
                                      IF ps.raised THEN "AttributeError" ELSE "None"))]
                    /\ embedders' = ps.c.cache
                    /\ _embedders' = ps.c.mm
                    /\ nextId' = ps.c.nid
    /\ UNCHANGED <<thr, loadFailed, last, store, sr, evalVars>>

\* Lines 220-227: db.commit() writes the objects of the session to their
\* rows and the report is returned; when it raises, the session is rolled
\* back and HTTP 500 is raised.
BackfillCommit(ok) ==
    /\ bf.pc = "commit"
    /\ IF ok
       THEN /\ store' = [id \in DOMAIN store |->
                           IF id \in DOMAIN bf.session THEN bf.session[id] ELSE store[id]]
            /\ bf' = [bf EXCEPT !.pc = "returned", !.resp = "ok", !.commits = @ + 1]
       ELSE /\ UNCHANGED store
            /\ bf' = [bf EXCEPT !.pc = "returned", !.resp = "HTTP 500",
                                !.session = NoRequest.session]
    /\ UNCHANGED <<registryVars, sr, evalVars>>

(***************************************************************************)
(* app/services/search_service.py: SearchService                           *)
(***************************************************************************)
\* The dict of lines 46-53.
SearchColumns ==
    [m \in {"resnet50", "mobilenet_v3", "efficientnet_b0", "convnext_tiny",
            "clip_vit_b16", "fashion_clip", "dinov2_vits14"} |->
        CASE m = "resnet50" -> "embedding_resnet"
          [] m = "mobilenet_v3" -> "embedding_mobilenet"
          [] m = "efficientnet_b0" -> "embedding_efficientnet"
          [] m = "convnext_tiny" -> "embedding_convnext"
          [] m = "clip_vit_b16" -> "embedding_clip"
          [] m = "fashion_clip" -> "embedding_fclip"
          [] OTHER -> "embedding_dino"]

\* Lines 46-54: .get(model_name, "embedding_efficientnet").
EmbCol(model_name) ==
    IF model_name \in DOMAIN SearchColumns THEN SearchColumns[model_name]
    ELSE "embedding_efficientnet"

\* model_mapping.py MODEL_DIMENSIONS and get_model_dimension.
MODEL_DIMENSIONS ==
    [m \in {"efficientnet_b0", "convnext_tiny", "clip_vit_b16", "fashion_clip",
            "dinov2_vits14"} |->
        CASE m = "efficientnet_b0" -> 1280
          [] m = "convnext_tiny" -> 768
          [] m = "dinov2_vits14" -> 384
          [] OTHER -> 512]

get_model_dimension(model_name) ==
    IF model_name \in DOMAIN MODEL_DIMENSIONS THEN MODEL_DIMENSIONS[model_name] ELSE 0

\* model_mapping.py get_embedding_column, lines 72-87, for the canonical
\* model names: "embedding_" and the prefix of MODEL_TO_PREFIX.
get_embedding_column(model_name) ==
    CASE model_name = "efficientnet_b0" -> "embedding_efficientnet"
      [] model_name = "convnext_tiny" -> "embedding_convnext"
      [] model_name = "clip_vit_b16" -> "embedding_clip"
      [] model_name = "fashion_clip" -> "embedding_fclip"
      [] model_name = "dinov2_vits14" -> "embedding_dino"

\* The cosine of the angle between two unit vectors of the model's plane.
Cos(u, v) ==
    LET d == (u.ang - v.ang + 4) % 4
    IN  IF d = 0 THEN 1 ELSE IF d = 2 THEN 0 - 1 ELSE 0

\* pgvector's <=>, the cosine distance.
Distance(u, v) == 1 - Cos(u, v)

\* The taxonomy: eshopdb.taxa (name, parent) and the classifications of the
\* products.  "gone" is a parent id no taxon has.
TaxonParent ==
    [t \in {"Shirts", "Apparel", "Loose"} |->
        CASE t = "Shirts" -> "Apparel"
          [] t = "Apparel" -> "NULL"
          [] OTHER -> "gone"]

Classifications ==
    [p \in {"p1", "p2", "p3", "p4", "p5"} |->
        CASE p = "p1" -> {"Shirts"}
          [] p = "p5" -> {"Shirts"}
          [] p = "p3" -> {"Apparel"}
          [] p = "p4" -> {"Loose"}
          [] OTHER -> {}]

\* Mutant of get_categorization: the parent is not looked up, its id is
\* returned as the sub-category.
get_categorization_parent_id(product_id) ==
    LET rows == IF product_id \in DOMAIN Classifications
                THEN Classifications[product_id] ELSE {}
    IN  IF rows = {} THEN {[article_type |-> "Unknown", sub_category |-> "Unknown"]}
        ELSE {[article_type |-> t, sub_category |-> TaxonParent[t]] : t \in rows}

\* SearchService.get_categorization, lines 16-34: every dict it may return,
\* one for each classification row .first() may pick.
get_categorization(product_id) ==
    LET rows == IF product_id \in DOMAIN Classifications
                THEN Classifications[product_id] ELSE {}
    IN  IF rows = {} THEN {[article_type |-> "Unknown", sub_category |-> "Unknown"]}
        ELSE {[article_type |-> t,
               sub_category |-> IF TaxonParent[t] # "NULL" /\ TaxonParent[t] \in DOMAIN TaxonParent
                               THEN TaxonParent[t] ELSE "Unknown"] : t \in rows}

\* Mutant of Candidates: the clause IS NOT NULL is missing.
CandidatesWithNull(col, exclude_image_id, exclude_product_id) ==
    {id \in DOMAIN store :
        /\ (exclude_image_id # "None" => id # exclude_image_id)
        /\ (exclude_product_id # "None" =>
               (store[id].product_id # "None" /\ store[id].product_id # exclude_product_id))}

\* Mutant of Candidates: the clause on exclude_image_id is missing.
CandidatesKeepImage(col, exclude_image_id, exclude_product_id) ==
    {id \in DOMAIN store :
        /\ ~store[id].cols[col].vec.null
        /\ (exclude_product_id # "None" =>
               (store[id].product_id # "None" /\ store[id].product_id # exclude_product_id))}

\* Lines 62-73, the WHERE clause: the rows it keeps.  SQL's != is not true
\* of a NULL product_id.
Candidates(col, exclude_image_id, exclude_product_id) ==
    {id \in DOMAIN store :
        /\ ~store[id].cols[col].vec.null
        /\ (exclude_image_id # "None" => id # exclude_image_id)
        /\ (exclude_product_id # "None" =>
               (store[id].product_id # "None" /\ store[id].product_id # exclude_product_id))}

\* ORDER BY distance LIMIT :limit over the rows of cand: every answer the
\* database may give (rows at equal distance come in any order).
Ranked(cand, col, vector, limit) ==
    LET m == IF limit < Cardinality(cand) THEN limit ELSE Cardinality(cand)
        dist(id) == Distance(store[id].cols[col].vec, vector)
    IN  {r \in [1..m -> cand] :
            /\ \A a, b \in 1..m : a < b => (r[a] # r[b] /\ dist(r[a]) <= dist(r[b]))
            /\ \A c \in cand : (\A a \in 1..m : r[a] # c) =>
                                  \A a \in 1..m : dist(r[a]) <= dist(c)}

\* The rows fetched on line 83: product_id, image_id, similarity.
Row(id, col, vector) ==
    [product_id |-> store[id].product_id, image_id |-> id,
     score |-> 1 - Distance(store[id].cols[col].vec, vector)]

NoSearch ==
    [api |-> "none", outcome |-> "none", items |-> <<>>, queried |-> FALSE,
     model_name |-> "None", col |-> "None", veclen |-> 0, vecang |-> 0, limit |-> 0,
     exclude_image_id |-> "None", exclude_product_id |-> "None"]

\* Lines 85-96: the items built from the rows.
Items(rows, cats) ==
    [k \in 1..Len(rows) |->
        [product_id |-> rows[k].product_id, image_id |-> rows[k].image_id,
         score |-> rows[k].score, article_type |-> cats[k].article_type,
         sub_category |-> cats[k].sub_category]]

\* What db.execute does with the SELECT of search_service.py line 83 and of
\* main.py line 292:
\*   "ProgrammingError" when the table has no such column, or when the table
\*   name is unqualified and the connection's search_path does not reach it,
\*   "DataError" when <=> meets a stored vector of another dimension than
\*   the query's (which it does as soon as it is applied to a row; whether it
\*   is applied to rows the WHERE clause drops is the planner's choice),
\*   else the rows.
Execute(col, vector, cand, qualified) ==
    IF col \notin ProductImageColumns THEN {"ProgrammingError"}
    ELSE (IF qualified THEN {} ELSE {"ProgrammingError"}) \cup
         (IF vector.len = ColumnDim(col) THEN {"rows"}
          ELSE IF cand # {} THEN {"DataError"}
          ELSE IF \E id \in DOMAIN store : ~store[id].cols[col].vec.null
               THEN {"DataError", "rows"}
          ELSE {"rows"})

\* SearchService.search_by_vector, lines 46-96: every way the call may end,
\* as the outcome ("ok" or the exception raised) and the items returned.
SearchReturns(vector, model_name, limit, exclude_image_id, exclude_product_id) ==
    LET col == EmbCol(model_name)
        cand == IF col \in ProductImageColumns
                THEN Candidates(col, exclude_image_id, exclude_product_id) ELSE {}
        built(r) ==
            LET rows == [k \in 1..Len(r) |-> Row(r[k], col, vector)]
            IN  IF \E k \in 1..Len(rows) : rows[k].product_id = "None"
                THEN {[outcome |-> "ValidationError", items |-> <<>>]}
                ELSE {[outcome |-> "ok", items |-> Items(rows, cats)] :
                         cats \in {c \in [1..Len(rows) ->
                                            UNION {get_categorization(p) :
                                                      p \in DOMAIN Classifications}] :
                                      \A k \in 1..Len(rows) :
                                         c[k] \in get_categorization(rows[k].product_id)}}
    IN  UNION {IF x # "rows" THEN {[outcome |-> x, items |-> <<>>]}
               ELSE UNION {built(r) : r \in Ranked(cand, col, vector, limit)} :
                  x \in Execute(col, vector, cand, TRUE)}

\* SearchService.search_by_vector, called by itself.
search_by_vector(vector, model_name, limit, exclude_image_id, exclude_product_id) ==
    LET call == [NoSearch EXCEPT
                   !.api = "search_by_vector", !.model_name = model_name,
                   !.col = EmbCol(model_name),
                   !.veclen = vector.len, !.vecang = vector.ang, !.limit = limit,
                   !.queried = TRUE,
                   !.exclude_image_id = exclude_image_id,
                   !.exclude_product_id = exclude_product_id]
    IN  /\ \E o \in SearchReturns(vector, model_name, limit,
                                  exclude_image_id, exclude_product_id) :
              sr' = [call EXCEPT !.outcome = o.outcome, !.items = o.items]
        /\ UNCHANGED <<registryVars, store, bf, evalVars>>

\* main.py line 274 and 229-262: the dict indexed with [model].
ApiColumns ==
    [m \in {"mobilenet_v3", "efficientnet_b0", "clip"} |->
        CASE m = "mobilenet_v3" -> "embedding_mobilenet"
          [] m = "efficientnet_b0" -> "embedding_efficientnet"
          [] OTHER -> "embedding_clip"]

\* main.py search_by_id, lines 265-299.  The response is validated against
\* SearchResponse, whose items need a product_id.
search_by_id(image_id, limit, model) ==
    LET call == [NoSearch EXCEPT
                   !.api = "search_by_id", !.model_name = model, !.limit = limit,
                   !.exclude_image_id = image_id]
    IN  /\ IF image_id \notin DOMAIN store
           THEN sr' = [call EXCEPT !.outcome = "HTTP404"]
           ELSE IF model \notin DOMAIN ApiColumns
           THEN sr' = [call EXCEPT !.outcome = "KeyError"]
           ELSE LET col == ApiColumns[model]
                IN  IF ReadColumn(store[image_id], col) = "AttributeError"
                    THEN sr' = [call EXCEPT !.outcome = "AttributeError", !.col = col]
                    ELSE IF ReadColumn(store[image_id], col) = "None"
                    THEN sr' = [call EXCEPT !.outcome = "HTTP404", !.col = col]
                    ELSE LET vector == store[image_id].cols[col].vec
                             cand == Candidates(col, image_id, "None")
                             sent == [call EXCEPT !.col = col, !.veclen = vector.len,
                                                  !.vecang = vector.ang, !.queried = TRUE]
                         IN  \E x \in Execute(col, vector, cand, FALSE) :
                                IF x # "rows" THEN sr' = [sent EXCEPT !.outcome = x]
                                ELSE \E r \in Ranked(cand, col, vector, limit) :
                                       LET rows == [k \in 1..Len(r) |-> Row(r[k], col, vector)]
                                           none == [k \in 1..Len(r) |->
                                                      [article_type |-> "absent",
                                                       sub_category |-> "absent"]]
                                       IN  sr' = IF \E k \in 1..Len(rows) :
                                                       rows[k].product_id = "None"
                                                 THEN [sent EXCEPT !.outcome = "ValidationError"]
                                                 ELSE [sent EXCEPT !.outcome = "ok",
                                                          !.items = Items(rows, none)]
        /\ UNCHANGED <<registryVars, store, bf, evalVars>>

\* The model names a request of compare-models may list, in the order of
\* the lists requested: the three search models of tests/test_thesis_api.py
\* and the names of the endpoint's default.
ComparableModels ==
    <<"efficientnet_b0", "fashion_clip", "dinov2_vits14", "clip", "mobilenet_v3">>

\* The entries of seq at the positions of S, in order.
RECURSIVE Pick(_, _, _)
Pick(seq, S, k) ==
    IF k > Len(seq) THEN <<>>
    ELSE (IF k \in S THEN <<seq[k]>> ELSE <<>>) \o Pick(seq, S, k + 1)

\* The lists of models requested.
CompareRequests == {Pick(ComparableModels, S, 1) : S \in SUBSET (1..Len(ComparableModels))}

\* No model compared yet: comparison_results = {}
NoComparison == [x \in {} |-> [count |-> 0, results |-> <<>>]]

\* main.py compare_models, lines 366-395: the loop over models from the list
\* given on, with comparison_results so far, and the validation of the
\* response against CompareResponse; every way it may end.
RECURSIVE CompareLoop(_, _, _, _)
CompareLoop(image_id, limit, models, comparison_results) ==
    IF models = <<>>
    THEN IF \E mo \in DOMAIN comparison_results :
               \E k \in 1..Len(comparison_results[mo].results) :
                  comparison_results[mo].results[k].product_id = "None"
         THEN {[outcome |-> "ValidationError", results_by_model |-> NoComparison]}
         ELSE {[outcome |-> "ok", results_by_model |-> comparison_results]}
    ELSE LET model_name == Head(models)
         IN  IF model_name \notin DOMAIN ApiColumns
             THEN CompareLoop(image_id, limit, Tail(models), comparison_results)
             ELSE LET emb_col == ApiColumns[model_name]
                      source_vector == ReadColumn(store[image_id], emb_col)
                  IN  IF source_vector = "AttributeError"
                      THEN {[outcome |-> "AttributeError", results_by_model |-> NoComparison]}
                      ELSE IF source_vector = "None"
                      THEN CompareLoop(image_id, limit, Tail(models),
                               DictSet(comparison_results, model_name,
                                       [count |-> 0, results |-> <<>>]))
                      ELSE LET vector == store[image_id].cols[emb_col].vec
                               cand == Candidates(emb_col, image_id, "None")
                           IN  UNION {
                                  IF x # "rows"
                                  THEN {[outcome |-> x, results_by_model |-> NoComparison]}
                                  ELSE UNION {
                                      CompareLoop(image_id, limit, Tail(models),
                                          DictSet(comparison_results, model_name,
                                              [count |-> Len(r),
                                               results |-> [k \in 1..Len(r) |->
                                                              Row(r[k], emb_col, vector)]])) :
                                         r \in Ranked(cand, emb_col, vector, limit)} :
                                     x \in Execute(emb_col, vector, cand, FALSE)}

\* main.py compare_models, lines 348-395.
compare_models(image_id, limit, models) ==
    /\ \E o \in (IF image_id \notin DOMAIN store
                  THEN {[outcome |-> "HTTP404", results_by_model |-> NoComparison]}
                  ELSE CompareLoop(image_id, limit, models, NoComparison)) :
          calc' = [fn |-> "compare_models", image_id |-> image_id, limit |-> limit,
                   models |-> models, outcome |-> o.outcome,
                   results_by_model |-> o.results_by_model]
    /\ UNCHANGED <<registryVars, store, bf, sr, products, ev>>

(***************************************************************************)
(* evaluation/thesis_validation_suite.py: ThesisValidator                  *)
(***************************************************************************)
\* No row in eshopdb.products.
NoProducts == [x \in {} |-> [split |-> "train"]]

\* SEARCH_MODELS, lines 46-50, and TEST_CONFIGS, lines 56-61.
SEARCH_MODELS == <<"efficientnet_b0", "fashion_clip", "dinov2_vits14">>

top_k_values == <<5, 10, 20>>

sample_size == 100

min_category_samples == 5

\* No computation.
NoCalc == [fn |-> "none"]

\* A float, kept as the exact fraction n / d it approximates.
Frac(n, d) == [n |-> n, d |-> d]

RECURSIVE GCD(_, _)
GCD(a, b) == IF b = 0 THEN a ELSE GCD(b, a % b)

\* a + b, in lowest terms.
FracAdd(a, b) ==
    LET n == a.n * b.d + b.n * a.d
        d == a.d * b.d
        g == GCD(n, d)
    IN  Frac(n \div g, d \div g)

FracLeq(a, b) == a.n * b.d <= b.n * a.d

FracEq(a, b) == a.n * b.d = b.n * a.d

\* sum(values) of a list of floats.
RECURSIVE FracSum(_)
FracSum(values) ==
    IF values = <<>> THEN Frac(0, 1)
    ELSE FracAdd(values[1], FracSum(Tail(values)))

\* a / k for an integer k > 0, in lowest terms.
FracOver(a, k) ==
    LET g == GCD(a.n, a.d * k)
    IN  Frac(a.n \div g, (a.d * k) \div g)

\* np.mean(values) of a non-empty list.
Mean(values) == FracOver(FracSum(values), Len(values))

(***************************************************************************)
(* app/model_factory.py: BaseEmbedder                                      *)
(***************************************************************************)
\* The width of the features the network of each embedder class returns for
\* one image (the last layer kept by the constructor, or the projection of
\* the CLIP models).
FeatureDim(n) ==
    CASE n = "resnet50" -> 2048
      [] n = "mobilenet_v3" -> 576
      [] n = "efficientnet_b0" -> 1280
      [] n = "convnext_tiny" -> 768
      [] n = "clip_vit_b16" -> 512
      [] n = "fashion_clip" -> 512
      [] n = "dino_vit_s16" -> 384
      [] OTHER -> 0

\* The L2 norms of raw features, in units of 1e-9: zero, tiny, just below
\* 1e-3, and 1.
RawNorms == {0, 1, 999998, 1000000000}

\* The types an image_input may have; "other" is none of those that
\* _load_image tests for.
InputTypes == {"str", "Path", "Image", "bytes", "other"}

\* No vector: the failure value None.
NoFeatures == [null |-> TRUE, len |-> 0, norm |-> Frac(0, 1)]

\* Mutant of _load_image: without the try of line 54, the exception of
\* Image.open or convert leaves the function.
_load_image_uncaught(image_input) ==
    IF image_input.type = "other" THEN [raised |-> FALSE, image |-> "None"]
    ELSE IF image_input.opens THEN [raised |-> FALSE, image |-> "RGB"]
    ELSE [raised |-> TRUE, image |-> "None"]

\* BaseEmbedder._load_image, lines 52-63: the RGB image, or None when
\* Image.open or convert raises (caught on line 61) or the input is of none
\* of the types tested.
_load_image(image_input) ==
    IF image_input.type = "other" THEN [raised |-> FALSE, image |-> "None"]
    ELSE IF image_input.opens THEN [raised |-> FALSE, image |-> "RGB"]
    ELSE [raised |-> FALSE, image |-> "None"]

\* BaseEmbedder._normalize, lines 77-82: features / (norm + 1e-9); the norm
\* of the result is norm / (norm + 1e-9), here in units of 1e-9.
_normalize(features) ==
    [null |-> FALSE, len |-> features.len,
     norm |-> Frac(features.norm, features.norm + 1)]

\* _forward of the embedder classes: the features of the network for the
\* image, normalized; preprocess or the network may raise.
_forward(self, net) ==
    IF net.raises THEN [raised |-> TRUE, out |-> NoFeatures]
    ELSE [raised |-> FALSE,
          out |-> _normalize([len |-> FeatureDim(self), norm |-> net.norm])]

\* relevance[:k]
Slice(relevance, k) ==
    SubSeq(relevance, 1, IF k < Len(relevance) THEN k ELSE Len(relevance))

\* sum(rel_k) of a list of booleans.
RECURSIVE sum(_)
sum(rel_k) ==
    IF rel_k = <<>> THEN 0
    ELSE (IF rel_k[1] THEN 1 ELSE 0) + sum(Tail(rel_k))

\* Mutant of precision: the hits of the whole list are counted.
precision_whole_list(relevance, k) == Frac(sum(relevance), k)

\* validate_search_feature, line 159: precision = sum(rel_k) / k
precision(relevance, k) == Frac(sum(Slice(relevance, k)), k)

\* validate_search_feature, line 160: recall = sum(rel_k) / total_relevant
recall(relevance, k, total_relevant) ==
    Frac(sum(Slice(relevance, k)), total_relevant)

\* Mutant of ApLoop: the precision at a hit is divided by the index i of
\* enumerate instead of by the rank i + 1 (rank 1 by 1).
RECURSIVE ApLoopByIndex(_, _, _, _)
ApLoopByIndex(relevance, i, rel_count, precisions) ==
    IF i >= Len(relevance) THEN precisions
    ELSE IF relevance[i + 1]
         THEN ApLoopByIndex(relevance, i + 1, rel_count + 1,
                     Append(precisions, Frac(rel_count + 1, IF i = 0 THEN 1 ELSE i)))
         ELSE ApLoopByIndex(relevance, i + 1, rel_count, precisions)

\* _calculate_ap, lines 424-429: the loop over enumerate(relevance), from
\* index i on (Python counts i from 0).
RECURSIVE ApLoop(_, _, _, _)
ApLoop(relevance, i, rel_count, precisions) ==
    IF i >= Len(relevance) THEN precisions
    ELSE IF relevance[i + 1]
         THEN ApLoop(relevance, i + 1, rel_count + 1,
                     Append(precisions, Frac(rel_count + 1, i + 1)))
         ELSE ApLoop(relevance, i + 1, rel_count, precisions)

\* ThesisValidator._calculate_ap, lines 420-430.
_calculate_ap(relevance) ==
    IF ~ \E i \in 1..Len(relevance) : relevance[i] THEN Frac(0, 1)
    ELSE LET precisions == ApLoop(relevance, 0, 0, <<>>)
         IN  IF precisions # <<>> THEN Mean(precisions) ELSE Frac(0, 1)

\* validate_search_feature, lines 156-165: the values appended for one
\* query at the K of index x.
MetricsAtK(relevance, total_relevant, x) ==
    LET k == top_k_values[x]
    IN  [K |-> k,
         P |-> precision(relevance, k),
         R |-> recall(relevance, k, total_relevant),
         AP |-> _calculate_ap(Slice(relevance, k))]

\* The record of a query evaluated for a model.
Evaluated(model, q, gt_category, relevance, total_relevant) ==
    [model |-> model, q |-> q, gt_category |-> gt_category,
     relevance |-> relevance, total_relevant |-> total_relevant,
     values |-> [x \in 1..Len(top_k_values) |->
                    MetricsAtK(relevance, total_relevant, x)]]

\* .order_by(func.random()).limit(limit).all() over the rows S: up to limit
\* of them, in any order.
Sample(S, limit) ==
    LET n == IF limit < Cardinality(S) THEN limit ELSE Cardinality(S)
    IN  {q \in [1..n -> S] : \A a, b \in 1..n : a # b => q[a] # q[b]}

\* The images of the products whose public_metadata['split'] is 'test'
\* (the join drops an image without product).  Every row of the model's
\* product_images is of type 'Search'.
TestPartition ==
    {id \in DOMAIN store :
        /\ store[id].product_id \in DOMAIN products
        /\ products[store[id].product_id].split = "test"}

\* ThesisValidator._get_test_queries, lines 396-409: the queries returned
\* and the rows they were drawn from.
_get_test_queries(limit) ==
    IF TestPartition # {}
    THEN {[source |-> "test", queries |-> q] : q \in Sample(TestPartition, limit)}
    ELSE {[source |-> "random", queries |-> q] : q \in Sample(DOMAIN store, limit)}

\* ThesisValidator._count_relevant_items, lines 411-418: the products, other
\* than exclude_product_id, classified under the taxon named category (one
\* per classification row; != is not true of NULL).
_count_relevant_items(category, exclude_product_id) ==
    IF exclude_product_id = "None" THEN 0
    ELSE Cardinality({pr \in DOMAIN products :
                         /\ pr # exclude_product_id
                         /\ pr \in DOMAIN Classifications
                         /\ category \in Classifications[pr]})

NoRun ==
    [pc |-> "idle", api |-> "none", source |-> "none", queries |-> <<>>,
     m |-> 0, i |-> 0, evaluated |-> <<>>, outcome |-> "none",
     global_metrics |-> {}, category_metrics |-> {}, tests |-> <<>>]

\* validate_search_feature, lines 109-120: the queries are fetched; without
\* any, {} is returned.
ValidateStart ==
    /\ ev.pc \in {"idle", "returned", "compared"}
    /\ \E g \in _get_test_queries(sample_size) :
          ev' = IF g.queries = <<>>
                THEN [NoRun EXCEPT !.pc = "returned", !.api = "validate_search_feature",
                                   !.source = g.source, !.outcome = "empty"]
                ELSE [NoRun EXCEPT !.pc = "loop", !.api = "validate_search_feature",
                                   !.source = g.source, !.queries = g.queries,
                                   !.m = 1, !.i = 1]
    /\ UNCHANGED <<registryVars, store, bf, sr, products, calc>>

\* The run after the body of the loop of line 125 has ended for one query.
NextQuery(e) ==
    IF e.i < Len(e.queries) THEN [e EXCEPT !.i = @ + 1]
    ELSE IF e.m < Len(SEARCH_MODELS) THEN [e EXCEPT !.m = @ + 1, !.i = 1]
    ELSE [e EXCEPT !.pc = "aggregate"]

\* validate_search_feature, lines 125-169: the body of the loops, for one
\* model and one query.  An exception of search_by_vector leaves the
\* function.
ValidateQuery ==
    /\ ev.pc = "loop"
    /\ LET model_name == SEARCH_MODELS[ev.m]
           q == ev.queries[ev.i]
           vector == store[q].cols[get_embedding_column(model_name)].vec
       IN  IF vector.null THEN ev' = NextQuery(ev)
           ELSE \E cat_info \in get_categorization(store[q].product_id),
                   o \in SearchReturns(vector, model_name, top_k_values[Len(top_k_values)],
                                       q, "None") :
                  LET gt_category == cat_info.article_type
                      relevance == [k \in 1..Len(o.items) |->
                                       o.items[k].article_type = gt_category]
                      total_relevant == _count_relevant_items(gt_category,
                                                              store[q].product_id)
                  IN  ev' = IF o.outcome # "ok"
                            THEN [ev EXCEPT !.pc = "returned", !.outcome = o.outcome]
                            ELSE IF total_relevant = 0 THEN NextQuery(ev)
                            ELSE NextQuery([ev EXCEPT !.evaluated = Append(@,
                                    Evaluated(model_name, q, gt_category,
                                              relevance, total_relevant))])
    /\ UNCHANGED <<registryVars, store, bf, sr, products, calc>>

\* results[model][metric@K] of lines 163-165: the values appended for the
\* model, in the order of their queries.  metric is "P", "R" or "AP", x the
\* index of K.
RECURSIVE ResultList(_, _, _, _)
ResultList(evaluated, model, metric, x) ==
    IF evaluated = <<>> THEN <<>>
    ELSE LET v == evaluated[1].values[x]
             rest == ResultList(Tail(evaluated), model, metric, x)
         IN  IF evaluated[1].model # model THEN rest
             ELSE <<CASE metric = "P" -> v.P [] metric = "R" -> v.R
                      [] OTHER -> v.AP>> \o rest

\* The queries whose values are in results[model], in the order of the
\* lists.
RECURSIVE ResultQueries(_, _)
ResultQueries(evaluated, model) ==
    IF evaluated = <<>> THEN <<>>
    ELSE (IF evaluated[1].model = model THEN <<evaluated[1].q>> ELSE <<>>)
            \o ResultQueries(Tail(evaluated), model)

\* category_results[model][category] of lines 168-171: the records of the
\* model's queries of that ground-truth category.
RECURSIVE CategoryRecords(_, _, _)
CategoryRecords(evaluated, model, category) ==
    IF evaluated = <<>> THEN <<>>
    ELSE (IF evaluated[1].model = model /\ evaluated[1].gt_category = category
          THEN <<evaluated[1]>> ELSE <<>>)
            \o CategoryRecords(Tail(evaluated), model, category)

\* The index of K = 10 in top_k_values (line 168: if k == 10).
CategoryK == CHOOSE x \in 1..Len(top_k_values) : top_k_values[x] = 10

\* _aggregate_metrics, lines 432-459, over the lists of results: one row per
\* model that has values, metric and K, with the mean and the number N of
\* the values (Std, Min, Max and the merged mAP column are left out).
_aggregate_metrics(evaluated) ==
    {[Model |-> evaluated[e].model, Metric |-> mt, K |-> top_k_values[x],
      Mean |-> Mean(ResultList(evaluated, evaluated[e].model, mt, x)),
      N |-> Len(ResultList(evaluated, evaluated[e].model, mt, x))] :
        e \in 1..Len(evaluated), mt \in {"P", "R", "AP"}, x \in 1..Len(top_k_values)}

\* Mutant of _aggregate_category_metrics: a category needs more than the
\* minimum.
_aggregate_category_metrics_above(evaluated) ==
    {[Model |-> evaluated[e].model, Category |-> evaluated[e].gt_category,
      mAP10 |-> Mean(ResultList(CategoryRecords(evaluated, evaluated[e].model,
                        evaluated[e].gt_category), evaluated[e].model, "AP", CategoryK)),
      N |-> Len(CategoryRecords(evaluated, evaluated[e].model, evaluated[e].gt_category))] :
        e \in {y \in 1..Len(evaluated) :
                  Len(CategoryRecords(evaluated, evaluated[y].model,
                          evaluated[y].gt_category)) > min_category_samples}}

\* _aggregate_category_metrics, lines 460-473: one row per model and
\* category with at least min_category_samples values.
_aggregate_category_metrics(evaluated) ==
    {[Model |-> evaluated[e].model, Category |-> evaluated[e].gt_category,
      mP10 |-> Mean(ResultList(CategoryRecords(evaluated, evaluated[e].model,
                        evaluated[e].gt_category), evaluated[e].model, "P", CategoryK)),
      mR10 |-> Mean(ResultList(CategoryRecords(evaluated, evaluated[e].model,
                        evaluated[e].gt_category), evaluated[e].model, "R", CategoryK)),
      mAP10 |-> Mean(ResultList(CategoryRecords(evaluated, evaluated[e].model,
                        evaluated[e].gt_category), evaluated[e].model, "AP", CategoryK)),
      N |-> Len(CategoryRecords(evaluated, evaluated[e].model, evaluated[e].gt_category))] :
        e \in {y \in 1..Len(evaluated) :
                  Len(CategoryRecords(evaluated, evaluated[y].model,
                          evaluated[y].gt_category)) >= min_category_samples}}

\* validate_search_feature, lines 171-188: the aggregates are written and
\* returned.
ValidateEnd ==
    /\ ev.pc = "aggregate"
    /\ ev' = [ev EXCEPT !.pc = "returned", !.outcome = "metrics",
                        !.global_metrics = _aggregate_metrics(ev.evaluated),
                        !.category_metrics = _aggregate_category_metrics(ev.evaluated)]
    /\ UNCHANGED <<registryVars, store, bf, sr, products, calc>>

\* The pairs model1, model2 of lines 265-266, as indices of SEARCH_MODELS.
ModelPairs ==
    LET n == Len(SEARCH_MODELS)
        RECURSIVE From(_, _)
        From(i, j) == IF i >= n THEN <<>>
                      ELSE IF j > n THEN From(i + 1, i + 2)
                      ELSE <<<<i, j>>>> \o From(i, j + 1)
    IN  From(1, 2)

\* The models that are keys of raw = dict(results): those with a value.
RawKeys(evaluated) == {evaluated[e].model : e \in 1..Len(evaluated)}

\* compare_models_statistically, lines 265-292, from the pair of index x on:
\* the calls of stats.ttest_rel made, with the lists given and the queries
\* the values of each list belong to, and how the loop ends.  raw[model] of a
\* model without key raises KeyError; ttest_rel raises ValueError on lists of
\* unequal length.
RECURSIVE ComparePairs(_, _, _)
ComparePairs(evaluated, x, tests) ==
    IF x > Len(ModelPairs) THEN [outcome |-> "ok", tests |-> tests]
    ELSE LET model1 == SEARCH_MODELS[ModelPairs[x][1]]
             model2 == SEARCH_MODELS[ModelPairs[x][2]]
             test == [Model_A |-> model1, Model_B |-> model2,
                      data1 |-> ResultList(evaluated, model1, "AP", CategoryK),
                      data2 |-> ResultList(evaluated, model2, "AP", CategoryK),
                      queries1 |-> ResultQueries(evaluated, model1),
                      queries2 |-> ResultQueries(evaluated, model2)]
         IN  IF model1 \notin RawKeys(evaluated) \/ model2 \notin RawKeys(evaluated)
             THEN [outcome |-> "KeyError", tests |-> tests]
             ELSE IF Len(test.data1) # Len(test.data2)
             THEN [outcome |-> "ValueError", tests |-> Append(tests, test)]
             ELSE ComparePairs(evaluated, x + 1, Append(tests, test))

\* run_full_validation, lines 94-96, and compare_models_statistically, lines
\* 254-299, on the result of validate_search_feature: {} when that is empty.
compare_models_statistically ==
    /\ ev.pc = "returned"
    /\ ev.outcome \in {"metrics", "empty"}
    /\ ev' = IF ev.outcome = "empty"
             THEN [ev EXCEPT !.pc = "compared", !.outcome = "no comparison"]
             ELSE LET c == ComparePairs(ev.evaluated, 1, <<>>)
                  IN  [ev EXCEPT !.pc = "compared", !.outcome = c.outcome,
                                 !.tests = c.tests]
    /\ UNCHANGED <<registryVars, store, bf, sr, products, calc>>

\* evaluation/run_full_experiment.py is loaded: line 24 imports calculate_ap
\* from evaluation.metrics, which defines no such name, so the module, and
\* with it ThesisExperimentRunner, never loads.
RunnerImport ==
    /\ ev.pc \in {"idle", "returned", "compared"}
    /\ ev' = [NoRun EXCEPT !.pc = "returned", !.api = "run_full_experiment",
                           !.outcome = "ImportError"]
    /\ UNCHANGED <<registryVars, store, bf, sr, products, calc>>

(***************************************************************************)
(* Initial states.                                                         *)
(***************************************************************************)
\* A row of product_images; ang and decodable describe the file behind url.
ImageRow(product, decodable, a, cols) ==
    [product_id |-> product, decodable |-> decodable, ang |-> a, cols |-> cols]

\* The cells of a row of which the columns of filled hold an imported vector.
Cells(filled, a) ==
    [col \in ProductImageColumns |->
        IF col \in filled
        THEN ImportedCell(col, IF col = "embedding_efficientnet" THEN "efficientnet_b0"
                                ELSE "clip_vit_b16", a)
        ELSE NullCell]

InitRegistry ==
    /\ _embedders = EmptyDict
    /\ embedders = EmptyDict
    /\ thr = [t \in Threads |-> IdleThread]
    /\ nextId = 1
    /\ loadFailed = {}
    /\ last = NoCall

\* The process has just started; no row is stored and no request is served.
Init ==
    /\ InitRegistry
    /\ store = [x \in {} |-> 0]
    /\ bf = NoRequest
    /\ sr = NoSearch
    /\ products = NoProducts
    /\ ev = NoRun
    /\ calc = NoCalc

\* The process has just started, over a catalog of two images: the file of
\* img1 loads and that of img2 does not; of the columns the batch generation
\* looks at, any may already hold an imported vector.
\* A catalog of three images, the first two of one product: the first has
\* a vector for EfficientNet or not and one for CLIP, the second a vector for
\* EfficientNet at one of two angles, the third one at another angle or
\* none, and belongs to a product that is classified or not, or to none.
InitSearch ==
    /\ InitRegistry
    /\ \E e \in [ImageIds -> {0 - 1, 0, 1, 2}], p3 \in {"p2", "p3", "p4", "None"} :
          /\ e["img1"] \in {0 - 1, 0}
          /\ e["img2"] \in {0, 1}
          /\ e["img3"] \in {0 - 1, 1, 2}
          /\ store = [id \in ImageIds |->
                        ImageRow(IF id = "img3" THEN p3 ELSE "p1", TRUE, 0,
                           [col \in ProductImageColumns |->
                               IF col = "embedding_efficientnet" /\ e[id] >= 0
                               THEN ImportedCell(col, "efficientnet_b0", e[id])
                               ELSE IF col = "embedding_clip" /\ id # "img3"
                               THEN ImportedCell(col, "clip_vit_b16", 0)
                               ELSE NullCell])]
    /\ bf = NoRequest
    /\ sr = NoSearch
    /\ products = NoProducts
    /\ ev = NoRun
    /\ calc = NoCalc

\* The script verify_models.py has just started.
InitVerify ==
    /\ InitRegistry
    /\ store = [x \in {} |-> 0]
    /\ bf = NoRequest
    /\ sr = NoSearch
    /\ products = NoProducts
    /\ ev = NoRun
    /\ calc = [fn |-> "test_models", pc |-> "get", i |-> 1, seen |-> <<>>]

\* extract_features is called on an embedder of one of the classes, with an
\* input of any type that opens as an image or not, for which the network
\* raises or returns features of some norm.
InitExtract ==
    /\ InitRegistry
    /\ store = [x \in {} |-> 0]
    /\ bf = NoRequest
    /\ sr = NoSearch
    /\ products = NoProducts
    /\ ev = NoRun
    /\ \E n \in _model_mapping, ty \in InputTypes, o \in BOOLEAN,
          fr \in BOOLEAN, nm \in RawNorms :
          calc = [fn |-> "extract_features", pc |-> "load", self |-> n,
                  image_input |-> [type |-> ty, opens |-> o],
                  net |-> [raises |-> fr, norm |-> nm],
                  raised |-> FALSE, out |-> NoFeatures]

\* The relevance masks of up to MaxHits hits.
Masks == UNION {[1..n -> BOOLEAN] : n \in 0..MaxHits}

\* One query about to be evaluated: the mask of its hits and the number of
\* relevant items (the query is skipped at line 152 when it is 0).
InitMetrics ==
    /\ InitRegistry
    /\ store = [x \in {} |-> 0]
    /\ bf = NoRequest
    /\ sr = NoSearch
    /\ products = NoProducts
    /\ ev = NoRun
    /\ \E r \in Masks, t \in 1..MaxRelevant :
          calc = [fn |-> "metrics", relevance |-> r, total_relevant |-> t,
                  values |-> <<>>]

\* n records of queries of one category for a model.
QueriesOf(model, gt_category, relevance, n) ==
    [j \in 1..n |-> Evaluated(model, "img1", gt_category, relevance, 1)]

\* The loops of validate_search_feature have ended for two models, each with
\* up to MaxCategoryQueries evaluated queries in each of two ground-truth
\* categories; the queries of a category have the same hits.
InitAggregate ==
    /\ InitRegistry
    /\ store = [x \in {} |-> 0]
    /\ bf = NoRequest
    /\ sr = NoSearch
    /\ products = NoProducts
    /\ ev = NoRun
    /\ \E n \in [{1, 2} \X {"Shirts", "Apparel"} -> 0..MaxCategoryQueries],
          rs \in {<<TRUE>>, <<FALSE, TRUE>>}, ra \in {<<FALSE>>, <<TRUE, FALSE>>} :
          calc = [fn |-> "aggregate", pc |-> "global",
                  evaluated |->
                      QueriesOf(SEARCH_MODELS[1], "Shirts", rs, n[1, "Shirts"])
                      \o QueriesOf(SEARCH_MODELS[1], "Apparel", ra, n[1, "Apparel"])
                      \o QueriesOf(SEARCH_MODELS[2], "Shirts", rs, n[2, "Shirts"])
                      \o QueriesOf(SEARCH_MODELS[2], "Apparel", ra, n[2, "Apparel"]),
                  global_metrics |-> {}, category_metrics |-> {}]

\* A catalog of three images for the evaluation: two of one product or of
\* two products classified under one taxon, the third of a product under
\* that or another taxon or of none; each with a vector for EfficientNet or not, the first two with a
\* vector for FashionCLIP or not; each product in the test or in the train
\* partition.
InitEvaluation ==
    /\ InitRegistry
    /\ \E e \in [ImageIds -> {0 - 1, 0, 1}], f \in [ImageIds -> {0 - 1, 0}],
          p2 \in {"p5", "p1"}, p3 \in {"p3", "p5", "None"} :
          /\ e["img1"] \in {0 - 1, 0}
          /\ e["img3"] \in {0 - 1, 1}
          /\ f["img3"] = 0 - 1
          /\ store = [id \in ImageIds |->
                        ImageRow(CASE id = "img1" -> "p1" [] id = "img2" -> p2
                                   [] OTHER -> p3,
                                 TRUE, 0,
                           [col \in ProductImageColumns |->
                               IF col = "embedding_efficientnet" /\ e[id] >= 0
                               THEN ImportedCell(col, "efficientnet_b0", e[id])
                               ELSE IF col = "embedding_fclip" /\ f[id] >= 0
                               THEN ImportedCell(col, "fashion_clip", f[id])
                               ELSE NullCell])]
    /\ \E t \in SUBSET {"p1", "p5", "p3"} :
          products = [pr \in DOMAIN Classifications |->
                        [split |-> IF pr \in t THEN "test" ELSE "train"]]
    /\ bf = NoRequest
    /\ sr = NoSearch
    /\ ev = NoRun
    /\ calc = NoCalc

InitBackfill ==
    /\ InitRegistry
    /\ \E f \in [ImageIds -> SUBSET {"embedding_efficientnet", "embedding_clip"}] :
          store = [id \in ImageIds |->
                     ImageRow("p1", id = "img1", IF id = "img1" THEN 0 ELSE 1, Cells(f[id], 0))]
    /\ bf = NoRequest
    /\ sr = NoSearch
    /\ products = NoProducts
    /\ ev = NoRun
    /\ calc = NoCalc

(***************************************************************************)
(* Specifications.                                                         *)
(***************************************************************************)
\* The model manager and the API's cache under concurrent callers.
NextRegistry ==
    \/ \E t \in Threads, n \in CallNames : GetEmbedderCall(t, n)
    \/ \E t \in Threads, n \in CallNames : get_cached_embedder(t, n)
    \/ \E t \in Threads, ok \in BOOLEAN : ConstructEnd(t, ok)

SpecRegistry == Init /\ [][NextRegistry]_vars

\* Warmup beside callers of get_embedder.
NextWarmup ==
    \/ \E t \in Threads, n \in CallNames : GetEmbedderCall(t, n)
    \/ \E t \in Threads, l \in WarmupLists : warmup(t, l)
    \/ \E t \in Threads : WarmupStep(t)
    \/ \E t \in Threads, ok \in BOOLEAN : ConstructEnd(t, ok)
    \/ \E t \in Threads : get_loaded_models(t)

SpecWarmup == Init /\ [][NextWarmup]_vars

\* The model manager called by one caller at a time (the scripts, the
\* dataset import and the handlers of the event loop): an operation starts
\* when every other caller is out of the model manager.
Sequential(t) == \A u \in Threads \ {t} : thr[u].pc = "idle"

NextLifetime ==
    \/ \E t \in Threads, n \in CallNames : Sequential(t) /\ GetEmbedderCall(t, n)
    \/ \E t \in Threads, l \in WarmupLists : Sequential(t) /\ warmup(t, l)
    \/ \E t \in Threads : WarmupStep(t)
    \/ \E t \in Threads, ok \in BOOLEAN : ConstructEnd(t, ok)
    \/ \E t \in Threads : Sequential(t) /\ get_loaded_models(t)

SpecLifetime == Init /\ [][NextLifetime]_vars

\* The validation suite, one run after the other.
NextEvaluation ==
    \/ ValidateStart
    \/ ValidateQuery
    \/ ValidateEnd
    \/ compare_models_statistically
    \/ RunnerImport

SpecEvaluation == InitEvaluation /\ [][NextEvaluation]_vars

\* validate_search_feature, lines 156-165: one turn of the loop over
\* TEST_CONFIGS['top_k_values'] for the query.
MetricsStep ==
    /\ calc.fn = "metrics"
    /\ Len(calc.values) < Len(top_k_values)
    /\ calc' = [calc EXCEPT !.values = Append(@,
                    MetricsAtK(calc.relevance, calc.total_relevant, Len(@) + 1))]
    /\ UNCHANGED <<registryVars, store, bf, sr, products, ev>>

\* BaseEmbedder.extract_features, lines 65-75, as one call: the vector, or
\* None.
extract_features(self, image_input, net) ==
    LET l == _load_image(image_input)
        f == _forward(self, net)
    IN  IF l.image = "None" \/ f.raised THEN NoFeatures ELSE f.out

\* scripts/verify_models.py test_models, line 31: get_embedder of the model
\* the loop has reached.  The loop bounds the number of embedders built.
VerifyGet ==
    /\ calc.fn = "test_models"
    /\ calc.pc = "get"
    /\ thr[1].pc = "idle"
    /\ EnterGetEmbedder(1, [IdleThread EXCEPT !.op = "get_embedder"],
                        AVAILABLE_MODELS[calc.i])
    /\ calc' = [calc EXCEPT !.pc = "called"]
    /\ UNCHANGED <<store, bf, sr, products, ev>>

\* test_models, lines 33-62, once get_embedder has returned: a loaded
\* embedder extracts the features of a random image and their length is
\* compared with embedder.dim; what was seen of the model is noted and the
\* loop goes on.
VerifyCheck ==
    /\ calc.fn = "test_models"
    /\ calc.pc = "called"
    /\ thr[1].pc = "idle"
    /\ \E fr \in BOOLEAN :
          LET embedder == last.out
              features == IF embedder = NoneObj THEN NoFeatures
                          ELSE extract_features(embedder.name,
                                   [type |-> "Image", opens |-> TRUE],
                                   [raises |-> fr, norm |-> 1000000000])
              seen == [m_name |-> last.name,
                       unknown |-> (embedder = NoneObj /\ ~last.tried /\ ~last.hit),
                       loaded |-> embedder # NoneObj,
                       dim |-> IF embedder = NoneObj THEN 0 ELSE EmbedderDim(embedder.name),
                       features |-> features,
                       result |-> (/\ embedder # NoneObj
                                   /\ ~features.null
                                   /\ features.len > 0
                                   /\ features.len = EmbedderDim(embedder.name))]
          IN  calc' = [calc EXCEPT !.seen = Append(@, seen),
                          !.i = @ + 1,
                          !.pc = IF calc.i < Len(AVAILABLE_MODELS) THEN "get" ELSE "exit"]
    /\ UNCHANGED <<registryVars, store, bf, sr, products, ev>>

\* scripts/verify_models.py: test_models from its start to sys.exit.
NextVerify ==
    \/ VerifyGet
    \/ \E ok \in BOOLEAN : ConstructEnd(1, ok)
    \/ VerifyCheck

SpecVerify == InitVerify /\ [][NextVerify]_vars

\* extract_features, lines 67-69: the image is loaded; None is returned
\* without it.
ExtractLoad ==
    /\ calc.fn = "extract_features"
    /\ calc.pc = "load"
    /\ LET l == _load_image(calc.image_input)
       IN  calc' = IF l.raised
                   THEN [calc EXCEPT !.pc = "returned", !.raised = TRUE]
                   ELSE IF l.image = "None"
                   THEN [calc EXCEPT !.pc = "returned", !.out = NoFeatures]
                   ELSE [calc EXCEPT !.pc = "forward"]
    /\ UNCHANGED <<registryVars, store, bf, sr, products, ev>>

\* extract_features, lines 71-75: self._forward(image), None when it raises.
ExtractForward ==
    /\ calc.fn = "extract_features"
    /\ calc.pc = "forward"
    /\ LET f == _forward(calc.self, calc.net)
       IN  calc' = [calc EXCEPT !.pc = "returned",
                                !.out = IF f.raised THEN NoFeatures ELSE f.out]
    /\ UNCHANGED <<registryVars, store, bf, sr, products, ev>>

\* One call of extract_features.
NextExtract ==
    \/ ExtractLoad
    \/ ExtractForward

SpecExtract == InitExtract /\ [][NextExtract]_vars

\* validate_search_feature, line 174: aggregated = _aggregate_metrics(results)
AggregateGlobal ==
    /\ calc.fn = "aggregate"
    /\ calc.pc = "global"
    /\ calc' = [calc EXCEPT !.pc = "category",
                    !.global_metrics = _aggregate_metrics(calc.evaluated)]
    /\ UNCHANGED <<registryVars, store, bf, sr, products, ev>>

\* validate_search_feature, line 175:
\* category_agg = _aggregate_category_metrics(category_results)
AggregateCategories ==
    /\ calc.fn = "aggregate"
    /\ calc.pc = "category"
    /\ calc' = [calc EXCEPT !.pc = "done",
                    !.category_metrics = _aggregate_category_metrics(calc.evaluated)]
    /\ UNCHANGED <<registryVars, store, bf, sr, products, ev>>

\* The aggregation at the end of a validation.
NextAggregate ==
    \/ AggregateGlobal
    \/ AggregateCategories

SpecAggregate == InitAggregate /\ [][NextAggregate]_vars

\* The metrics of one query.
NextMetrics == MetricsStep

SpecMetrics == InitMetrics /\ [][NextMetrics]_vars

\* Batch embedding generation, one request after the other.
NextBackfill ==
    \/ \E ids \in BatchLists : BackfillCall(ids)
    \/ \E oks \in [BackfillModels -> BOOLEAN] : BackfillImage(oks)
    \/ \E ok \in BOOLEAN : BackfillCommit(ok)

SpecBackfill == InitBackfill /\ [][NextBackfill]_vars

\* The query vectors, model names and exclusions the searches are called
\* with.
QueryVectors == {Vec(1280, 0), Vec(1280, 1), Vec(512, 0)}

SearchModels == {"efficientnet_b0", "clip_vit_b16", "mobilenet_v3", "bogus_model"}

\* Searches over a fixed catalog.
NextSearch ==
    \/ \E v \in QueryVectors, m \in SearchModels, k \in 0..MaxLimit,
          xi \in {"None", "img1"}, xp \in {"None", "p1"} :
             search_by_vector(v, m, k, xi, xp)
    \/ \E id \in ImageIds \cup {GhostId}, k \in 1..MaxLimit,
          m \in {"efficientnet_b0", "clip", "mobilenet_v3", "bogus_model"} :
             search_by_id(id, k, m)

SpecSearch == InitSearch /\ [][NextSearch]_vars

\* A request of the compare-models diagnostic over a fixed catalog.  The
\* endpoint writes nothing, so a request does not depend on those before it.
NextCompare ==
    \E id \in ImageIds \cup {GhostId}, k \in 1..MaxLimit, ms \in CompareRequests :
        calc.fn = "none" /\ compare_models(id, k, ms)

SpecCompare == InitSearch /\ [][NextCompare]_vars

(***************************************************************************)
(* Claims about the model manager.                                         *)
(***************************************************************************)
\* C1: single-flight.  Concurrent first-time callers of get_embedder for one
\* name run exactly one construction (at most one thread is inside the
\* constructor of a name) and observe the same outcome (no caller is still
\* constructing its own instance of a name another caller has loaded).
C1_SingleFlight ==
    \A n \in CallNames :
        /\ Cardinality(InConstructor(n)) <= 1
        /\ (InConstructor(n) # {} => n \notin DOMAIN _embedders)

\* The call that has just returned looked a name up and found no cached
\* embedder instance.
LookupFoundNoInstance ==
    /\ last.op \in {"get_embedder", "get_cached_embedder"}
    /\ ~(last.hit /\ last.out # NoneObj)

\* C8: a construction failure is not cached for good.  A lookup of a name
\* (get_embedder or get_cached_embedder) that starts after a construction of
\* that name has failed and that finds no cached instance attempts the
\* construction again, and returns the embedder when the attempt succeeds.
C8_FailureNotCached ==
    (LookupFoundNoInstance /\ last.after) =>
        /\ last.tried
        /\ (last.ok => last.out # NoneObj)

\* C9: get_embedder with a name that _model_mapping does not hold returns
\* None (no usable embedder), calls no constructor and leaves the loaded
\* embedders as they were.
C9_UnknownName ==
    [][(last'.op = "get_embedder" /\ last'.name \notin _model_mapping) =>
          /\ last'.out = NoneObj
          /\ ~last'.tried
          /\ nextId' = nextId
          /\ _embedders' = _embedders]_vars

\* C9 witness: get_embedder has just answered an unknown name while another
\* model is loaded.
C9_Witness ==
    /\ last.op = "get_embedder"
    /\ last.name \notin _model_mapping
    /\ last.out = NoneObj
    /\ DOMAIN _embedders # {}

\* C10: warmup is best-effort.  When warmup returns it has raised nothing and
\* every name of its list is loaded, unless the name is unknown or its
\* construction failed during this warmup.
C10_WarmupBestEffort ==
    last.op = "warmup" =>
        /\ ~last.raised
        /\ \A i \in 1..Len(last.asked) :
              \/ last.asked[i] \in DOMAIN _embedders
              \/ last.asked[i] \notin _model_mapping
              \/ last.asked[i] \in last.failed

\* C10 witness: a warmup returned whose first name was unknown or failed to
\* load and whose second, different name is loaded.
C10_Witness ==
    /\ last.op = "warmup"
    /\ Len(last.asked) >= 2
    /\ last.asked[1] # last.asked[2]
    /\ last.asked[1] \notin DOMAIN _embedders
    /\ last.asked[2] \in DOMAIN _embedders
(***************************************************************************)
(* Claims about the batch embedding generation.                            *)
(***************************************************************************)
\* The entries of the request's ids that name a stored image.
FoundEntries == {k \in 1..Len(bf.ids) : bf.ids[k] \in DOMAIN bf.before}

\* The (image, column) pairs that held a vector when the request arrived.
FilledBefore ==
    {p \in (DOMAIN bf.before) \X ProductImageColumns : ~bf.before[p[1]].cols[p[2]].vec.null}

\* C2: the batch generation (which has no force flag) never calls
\* extract_features for, and never overwrites, an (image, model) pair whose
\* stored vector is not null: the pair's vector and metadata are what they
\* were when the request arrived.
C2_FilledPairUntouched ==
    \A p \in FilledBefore :
        /\ p \notin bf.extracted
        /\ store[p[1]].cols[p[2]] = bf.before[p[1]].cols[p[2]]

\* C2 witness: a request has returned that named an image whose
\* embedding_efficientnet was filled when it arrived.
C2_Witness ==
    /\ bf.pc = "returned"
    /\ bf.resp = "ok"
    /\ \E k \in FoundEntries : <<bf.ids[k], "embedding_efficientnet">> \in FilledBefore

\* C3: a request that repeats the image ids of the request that returned
\* just before it sets no column of any image and reports no model in
\* updated_embeddings.
C3_RerunWritesNothing ==
    (bf.pc = "returned" /\ bf.rerun) =>
        /\ bf.written = {}
        /\ store = bf.before
        /\ \A k \in 1..Len(bf.report_details) :
              bf.report_details[k].updated_embeddings = <<>>

\* C3 witness: the repeated request has returned, and it named an image
\* whose embedding_efficientnet is still empty.
C3_Witness ==
    /\ bf.pc = "returned"
    /\ bf.rerun
    /\ \E k \in FoundEntries : store[bf.ids[k]].cols["embedding_efficientnet"].vec.null

\* C4: failures of (image, model) pairs are isolated.  When the request
\* returns its report, every stored image it named counts as succeeded and
\* has status success, and a model is listed in an image's
\* updated_embeddings only if the image now holds a vector for it.
C4_FailureIsolation ==
    (bf.pc = "returned" /\ bf.resp = "ok") =>
        /\ bf.success_count = Cardinality(FoundEntries)
        /\ \A k \in FoundEntries :
              /\ bf.report_details[k].status = "success"
              /\ \A j \in 1..Len(models_to_check) :
                    (\E x \in 1..Len(bf.report_details[k].updated_embeddings) :
                        bf.report_details[k].updated_embeddings[x] = models_to_check[j][1])
                    => /\ models_to_check[j][2] \in ProductImageColumns
                       /\ ~store[bf.ids[k]].cols[models_to_check[j][2]].vec.null

(***************************************************************************)
(* Similarity search                                                       *)
(***************************************************************************)
\* C5: a search that returns results returns at most limit of them, none of
\* them the image given as exclude_image_id (for search_by_id, the source
\* image) nor an image of the product given as exclude_product_id, and in
\* order of non-increasing similarity score.
C5_SearchResults ==
    sr.outcome = "ok" =>
        /\ Len(sr.items) <= sr.limit
        /\ \A k \in 1..Len(sr.items) :
              /\ sr.items[k].image_id # sr.exclude_image_id
              /\ sr.items[k].product_id # sr.exclude_product_id
        /\ \A a, b \in 1..Len(sr.items) :
              a < b => sr.items[a].score >= sr.items[b].score

\* A search_by_vector that left out an image which has a vector for the
\* model and returned two results of different scores.
C5_Witness ==
    /\ sr.api = "search_by_vector"
    /\ sr.outcome = "ok"
    /\ sr.exclude_image_id = "img1"
    /\ ~store["img1"].cols[sr.col].vec.null
    /\ sr.limit = 2
    /\ Len(sr.items) = 2
    /\ sr.items[1].score > sr.items[2].score

\* C6: search_by_vector called with a model key that is not a known model
\* returns an InvalidModel error and no results.
C6_UnknownModelRejected ==
    (sr.api = "search_by_vector" /\ sr.model_name \notin DOMAIN SearchColumns) =>
        (sr.outcome = "InvalidModel" /\ sr.items = <<>>)

\* C7: search_by_vector called with a query vector whose length is not the
\* dimension of the model returns DimensionMismatch without having sent a
\* query to the store.
C7_DimensionCheckedFirst ==
    (/\ sr.api = "search_by_vector"
     /\ sr.model_name \in DOMAIN MODEL_DIMENSIONS
     /\ sr.veclen # get_model_dimension(sr.model_name)) =>
        (sr.outcome = "DimensionMismatch" /\ ~sr.queried)

ProcessedImages == {k \in 1..(bf.i - 1) : bf.ids[k] \in DOMAIN store}

\* C12: the batch embedding generation commits image by image: once the
\* loop is past an image, a commit has been made for it, and when the
\* request ends with a failed commit every column written for the images
\* processed before is in the store.
C12_CommitPerImage ==
    /\ bf.pc \in {"loop", "commit"} => bf.commits >= Cardinality(ProcessedImages)
    /\ (bf.pc = "returned" /\ bf.resp = "HTTP 500") =>
          \A w \in bf.written : ~store[w[1]].cols[w[2]].vec.null

C14_ReportShape ==
    (bf.pc = "returned" /\ bf.resp = "ok") =>
        /\ Len(bf.report_details) = Len(bf.ids)
        /\ \A k \in 1..Len(bf.report_details) :
              LET d == bf.report_details[k]
              IN  /\ d.image_id = bf.ids[k]
                  /\ d.status \in {"success", "failed"}
                  /\ bf.ids[k] \notin DOMAIN store =>
                        (/\ d.status = "failed"
                         /\ d.error = "Image not found"
                         /\ d.updated_embeddings = <<>>)
        /\ bf.success_count + bf.fail_count = Len(bf.ids)
        /\ bf.success_count =
              Cardinality({k \in 1..Len(bf.report_details) :
                              bf.report_details[k].status = "success"})

\* The response to a request of two ids, one of an image and one of none.
C14_Witness ==
    /\ bf.pc = "returned"
    /\ bf.resp = "ok"
    /\ Len(bf.ids) = 2
    /\ bf.ids[1] = GhostId
    /\ bf.ids[2] \in DOMAIN store
    /\ Len(bf.report_details) = 2

C16_NullVectorsExcluded ==
    (/\ sr.api = "search_by_vector"
     /\ sr.outcome = "ok"
     /\ sr.model_name \in DOMAIN MODEL_DIMENSIONS) =>
        \A k \in 1..Len(sr.items) :
           ~store[sr.items[k].image_id].cols[get_embedding_column(sr.model_name)].vec.null

\* A search under EfficientNet has returned results, fewer than its limit,
\* while an image that no clause excludes holds a vector for CLIP and none
\* for EfficientNet.
C16_Witness ==
    /\ sr.api = "search_by_vector"
    /\ sr.outcome = "ok"
    /\ sr.model_name = "efficientnet_b0"
    /\ sr.exclude_image_id = "None"
    /\ sr.exclude_product_id = "None"
    /\ sr.items # <<>>
    /\ Len(sr.items) < sr.limit
    /\ \E id \in DOMAIN store :
          /\ store[id].cols["embedding_efficientnet"].vec.null
          /\ ~store[id].cols["embedding_clip"].vec.null

\* C17: over an unchanged table, a search_by_vector that follows one with
\* the same query vector, model, limit and exclusions, both returning
\* results, returns the same results in the same order.
C17_DeterministicRanking ==
    [][(/\ sr.api = "search_by_vector" /\ sr'.api = "search_by_vector"
        /\ sr.outcome = "ok" /\ sr'.outcome = "ok"
        /\ store' = store
        /\ sr'.model_name = sr.model_name
        /\ sr'.veclen = sr.veclen /\ sr'.vecang = sr.vecang
        /\ sr'.limit = sr.limit
        /\ sr'.exclude_image_id = sr.exclude_image_id
        /\ sr'.exclude_product_id = sr.exclude_product_id)
          => sr'.items = sr.items]_vars

(***************************************************************************)
(* Category enrichment                                                     *)
(***************************************************************************)
\* The taxa whose parent is NULL or the id of no taxon.
ParentlessTaxa ==
    {t \in DOMAIN TaxonParent : TaxonParent[t] \notin DOMAIN TaxonParent}

\* C18: the enrichment fails no search: a search_by_vector ends with its
\* results, with an error of the query, or with the rejection of a row that
\* has no product; in its results a hit whose product has no classification
\* has article_type and sub_category "Unknown", a hit classified under a
\* taxon without (existing) parent has that taxon and sub_category
\* "Unknown", and every other hit its taxon and the parent's name.
C18_EnrichmentUnknown ==
    sr.api = "search_by_vector" =>
        /\ sr.outcome \in {"ok", "ProgrammingError", "DataError", "ValidationError"}
        /\ sr.outcome = "ValidationError" =>
              \E id \in DOMAIN store : store[id].product_id = "None"
        /\ \A k \in 1..Len(sr.items) :
              LET d == sr.items[k]
                  taxa == Classifications[d.product_id]
              IN  /\ taxa = {} =>
                        (d.article_type = "Unknown" /\ d.sub_category = "Unknown")
                  /\ taxa # {} =>
                        /\ d.article_type \in taxa
                        /\ d.sub_category =
                              IF d.article_type \in ParentlessTaxa THEN "Unknown"
                              ELSE TaxonParent[d.article_type]

\* A search has returned two hits, one classified under a taxon with a
\* parent and one whose product has no classification or whose taxon has no
\* parent.
C18_Witness ==
    /\ sr.api = "search_by_vector"
    /\ sr.outcome = "ok"
    /\ Len(sr.items) = 2
    /\ \E k \in 1..2 : sr.items[k].sub_category = "Apparel"
    /\ \E k \in 1..2 : sr.items[k].sub_category = "Unknown"

(***************************************************************************)
(* Evaluation                                                              *)
(***************************************************************************)
\* C19: an evaluation over a catalog whose test partition has no image ends
\* with an error and no metrics, and has taken no query from other rows.
C19_EmptyPartitionFails ==
    (ev.api # "none" /\ TestPartition = {}) =>
        /\ ev.source # "random"
        /\ ev.pc = "returned" =>
              (ev.outcome \notin {"metrics", "empty"} /\ ev.global_metrics = {})

\* C20: a run of the evaluation in which no query was evaluated ends with an
\* error instead of a report, and a query with no relevant item is in no
\* list of values.
C20_NoEligibleQueryFails ==
    /\ (ev.pc = "returned" /\ ev.api = "validate_search_feature" /\ ev.evaluated = <<>>)
          => ev.outcome \notin {"metrics", "empty"}
    /\ \A x \in 1..Len(ev.evaluated) : ev.evaluated[x].total_relevant > 0

\* The number of relevant hits among the first k of a mask.
RelevantInTop(relevance, k) ==
    Cardinality({i \in 1..Len(relevance) : i <= k /\ relevance[i]})

\* C21: for the query evaluated, Recall@K does not decrease as K grows, and
\* Precision@K is relevant_in_top_K / K and lies between 0 and 1, also when
\* fewer than K hits were retrieved.
C21_RecallMonotonePrecisionBounded ==
    calc.fn = "metrics" =>
        /\ \A x, y \in 1..Len(calc.values) :
              calc.values[x].K <= calc.values[y].K
                  => FracLeq(calc.values[x].R, calc.values[y].R)
        /\ \A x \in 1..Len(calc.values) :
              LET v == calc.values[x]
              IN  /\ FracEq(v.P, Frac(RelevantInTop(calc.relevance, v.K), v.K))
                  /\ FracLeq(Frac(0, 1), v.P)
                  /\ FracLeq(v.P, Frac(1, 1))

\* More hits than the smallest K, a relevant one beyond it, and fewer hits
\* than the largest K: all values computed.
C21_Witness ==
    /\ calc.fn = "metrics"
    /\ Len(calc.values) = Len(top_k_values)
    /\ Len(calc.relevance) > top_k_values[1]
    /\ Len(calc.relevance) < top_k_values[Len(top_k_values)]
    /\ calc.relevance[top_k_values[1] + 1]
    /\ calc.relevance[1]
    /\ ~ FracEq(calc.values[1].R, calc.values[2].R)

\* The sum of the precisions at the ranks of S: of the fractions
\* (relevant hits up to rank i) / i.
RECURSIVE PrecisionAtRanks(_, _)
PrecisionAtRanks(relevance, S) ==
    IF S = {} THEN Frac(0, 1)
    ELSE LET i == CHOOSE x \in S : TRUE
         IN  FracAdd(Frac(RelevantInTop(relevance, i), i),
                     PrecisionAtRanks(relevance, S \ {i}))

\* The ranks, up to k, of the relevant hits of a mask.
RelevantRanks(relevance, k) ==
    {i \in 1..Len(relevance) : i <= k /\ relevance[i]}

\* C22: AP@K is the mean, over the relevant hits at rank <= K, of the number
\* of relevant hits up to that rank divided by the rank; it is 0 when no hit
\* of the top K is relevant and positive otherwise.
C22_AveragePrecision ==
    calc.fn = "metrics" =>
        \A x \in 1..Len(calc.values) :
            LET v == calc.values[x]
                S == RelevantRanks(calc.relevance, v.K)
                total == PrecisionAtRanks(calc.relevance, S)
            IN  /\ S = {} <=> v.AP.n = 0
                /\ S # {} => /\ v.AP.n > 0 /\ v.AP.d > 0
                             /\ v.AP = FracOver(total, Cardinality(S))

\* AP@5 and AP@10 of a mask differ: a relevant hit after an irrelevant one
\* within the top 5, and another between ranks 6 and 10.
C22_Witness ==
    /\ calc.fn = "metrics"
    /\ Len(calc.values) = Len(top_k_values)
    /\ Len(calc.relevance) > top_k_values[1]
    /\ ~ calc.relevance[1]
    /\ calc.values[1].AP.n > 0
    /\ calc.values[1].AP # calc.values[2].AP

\* The evaluated queries of a model, and those of one ground-truth category.
QueriesEvaluated(evaluated, model) ==
    {y \in 1..Len(evaluated) : evaluated[y].model = model}

QueriesOfCategory(evaluated, model, category) ==
    {y \in QueriesEvaluated(evaluated, model) : evaluated[y].gt_category = category}

\* C23: after the aggregation, the category breakdown has a row for a model
\* and a ground-truth category exactly when the model has at least
\* min_category_samples evaluated queries of that category, and the global
\* rows of the model count the queries of all its categories, the omitted
\* ones included.
C23_CategoryMinimum ==
    (calc.fn = "aggregate" /\ calc.pc = "done") =>
        \A x \in 1..Len(SEARCH_MODELS) :
            LET model == SEARCH_MODELS[x]
                all == QueriesEvaluated(calc.evaluated, model)
            IN  /\ \A category \in {"Shirts", "Apparel"} :
                      LET n == Cardinality(QueriesOfCategory(calc.evaluated, model, category))
                      IN  /\ n < min_category_samples =>
                                ~ \E row \in calc.category_metrics :
                                    row.Model = model /\ row.Category = category
                          /\ n >= min_category_samples =>
                                \E row \in calc.category_metrics :
                                    /\ row.Model = model
                                    /\ row.Category = category
                                    /\ row.N = n
                /\ all # {} =>
                      \A k \in 1..Len(top_k_values), mt \in {"P", "R", "AP"} :
                          \E row \in calc.global_metrics :
                              /\ row.Model = model
                              /\ row.Metric = mt
                              /\ row.K = top_k_values[k]
                              /\ row.N = Cardinality(all)

\* A model with one category exactly at the minimum, so present, and
\* another below it, omitted from the breakdown and counted globally.
C23_Witness ==
    /\ calc.fn = "aggregate"
    /\ calc.pc = "done"
    /\ \E row \in calc.category_metrics :
          /\ row.Model = SEARCH_MODELS[1]
          /\ row.Category = "Shirts"
          /\ row.N = min_category_samples
    /\ Cardinality(QueriesOfCategory(calc.evaluated, SEARCH_MODELS[1], "Apparel"))
          \in 1..(min_category_samples - 1)
    /\ \E row \in calc.global_metrics :
          row.Model = SEARCH_MODELS[1] /\ row.N > min_category_samples

\* C24: the two lists given to each paired test of the comparison have the
\* same length, and their values at the same position belong to the same
\* query image.
C24_PairedSameQueries ==
    \A x \in 1..Len(ev.tests) :
        LET t == ev.tests[x]
        IN  /\ Len(t.data1) = Len(t.data2)
            /\ Len(t.queries1) = Len(t.queries2)
            /\ \A k \in 1..Len(t.queries1) : t.queries1[k] = t.queries2[k]

(***************************************************************************)
(* Embedders                                                               *)
(***************************************************************************)
\* C25: extract_features raises nothing to its caller; it returns None for an
\* input that does not load as an image (undecodable bytes, unreadable path,
\* unsupported type) and when the computation raises, and a vector
\* otherwise.
C25_ExtractNeverRaises ==
    (calc.fn = "extract_features" /\ calc.pc = "returned") =>
        /\ ~calc.raised
        /\ calc.out.null <=>
              \/ calc.image_input.type = "other"
              \/ ~calc.image_input.opens
              \/ calc.net.raises

\* A call has returned None because the bytes given do not decode.
C25_Witness ==
    /\ calc.fn = "extract_features"
    /\ calc.pc = "returned"
    /\ calc.image_input.type = "bytes"
    /\ ~calc.image_input.opens
    /\ calc.out.null

\* C26: a vector returned by extract_features of the embedder of a configured
\* model key has the key's dimension and an L2 norm within 1e-6 of 1,
\* whatever the raw features, all zeros included.
C26_UnitNorm ==
    (/\ calc.fn = "extract_features"
     /\ calc.pc = "returned"
     /\ calc.self \in DOMAIN MODEL_DIMENSIONS
     /\ ~calc.out.null) =>
        /\ calc.out.len = MODEL_DIMENSIONS[calc.self]
        /\ (calc.out.norm.d - calc.out.norm.n) * 1000000 <= calc.out.norm.d

\* C27: for every name of settings.AVAILABLE_MODELS the verification has
\* gone through, get_embedder did not take the path of an unknown model,
\* and a loaded embedder's dim is the length of the vector it extracted and
\* get_model_dimension of the name.
C27_AvailableModelsResolvable ==
    calc.fn = "test_models" =>
        \A x \in 1..Len(calc.seen) :
            LET v == calc.seen[x]
            IN  /\ ~v.unknown
                /\ v.loaded =>
                      /\ v.dim = get_model_dimension(v.m_name)
                      /\ ~v.features.null => v.features.len = v.dim

(***************************************************************************)
(* Diagnostics                                                             *)
(***************************************************************************)
\* The images with a stored vector for a model.
ImagesWithVector(model) ==
    {id \in DOMAIN store : ~store[id].cols[get_embedding_column(model)].vec.null}

\* C28: the response of compare-models has an entry in results_by_model for
\* every search model requested, with count > 0 when the source image and
\* another image have a vector for the model.
C28_NoModelDropped ==
    (calc.fn = "compare_models" /\ calc.outcome = "ok") =>
        \A x \in 1..Len(calc.models) :
            LET model == calc.models[x]
            IN  (\E y \in 1..Len(SEARCH_MODELS) : SEARCH_MODELS[y] = model) =>
                    /\ model \in DOMAIN calc.results_by_model
                    /\ (/\ calc.image_id \in ImagesWithVector(model)
                        /\ ImagesWithVector(model) \ {calc.image_id} # {})
                          => calc.results_by_model[model].count > 0

(***************************************************************************)
(* Report of the batch embedding generation                                *)
(***************************************************************************)
\* The column models_to_check gives for a model name.
BackfillColumn(model_name) ==
    LET k == CHOOSE x \in 1..Len(models_to_check) : models_to_check[x][1] = model_name
    IN  models_to_check[k][2]

C30_RecallAtMostOne ==
    \A x \in 1..Len(ev.evaluated) :
        \A k \in 1..Len(top_k_values) :
            /\ ev.evaluated[x].values[k].R.n <= ev.evaluated[x].total_relevant
            /\ FracLeq(ev.evaluated[x].values[k].R, Frac(1, 1))

====
